---------------------------- MODULE Spec2Model ----------------------------
(***************************************************************************)
(* CharacterInteractionsProcessor (backend/character_interactions_         *)
(* processor.py): one run of process(title, text), i.e. preprocess_text    *)
(* followed by the stages of generate_timeline_json.                       *)
(*                                                                         *)
(* A string is the sequence of its tokens: a line ("#", a chapter heading  *)
(* that chapter_regex matches, or "x", a paragraph), a newline or a space. *)
(* Matrices are sequences of rows of floats, a float being an exact        *)
(* fraction [n, d] in lowest terms.  Python dicts are                      *)
(* sequences of <<key, value>> pairs in insertion order.                   *)
(***************************************************************************)
EXTENDS Integers, Sequences, FiniteSets, TLC

VARIABLES
    text,                  \* argument of process()
    chapter_regex,         \* TRUE iff a boundary pattern was supplied
    nb_sections,           \* self.nb_sections
    percentile,            \* self.percentile
    pruned,                \* self.pruned
    timeline,              \* local of preprocess_text: the groups before cleaning
    sections,              \* self.sections
    unnormalised_matrices, \* self.unnormalised_matrices
    normalised_matrices,   \* self.normalised_matrices
    characters_timeline,   \* self.characters_timeline
    metadata,              \* self.metadata
    json_contents,         \* local of generate_timeline_json
    written,               \* TRUE once the output file has been written
    threshold,             \* local of prune; NaN until prune computes a number
    pc,                    \* position in process()
    err                    \* the exception that ended the run, or "none"

vars == <<text, chapter_regex, nb_sections, percentile, pruned, timeline,
          sections, unnormalised_matrices, normalised_matrices,
          characters_timeline, metadata, json_contents, written, threshold,
          pc, err>>

---------------------------------------------------------------------------
(* Bounds of the model *)

\* longest text, in lines
MaxParas == 4
\* largest configured nb_sections
MaxSections == 5
\* largest raw interaction weight the analyser returns
MaxW == 1
\* most sections analysed when the whole pipeline is explored
MaxAnalysed == 2

\* the configured nb_sections: the constructor accepts any int
SectionCounts == -2..MaxSections

Lines == {"#", "x"}
LineSeqs == UNION {[1..k -> Lines] : k \in 1..MaxParas}

---------------------------------------------------------------------------
(* Generic helpers *)

Min(a, b) == IF a <= b THEN a ELSE b

RECURSIVE Concat(_)
Concat(ss) == IF ss = <<>> THEN <<>> ELSE Head(ss) \o Concat(Tail(ss))

\* Python's s[lo:hi] for 0 <= lo, 0 <= hi (0-based, hi exclusive, clamped)
Slice(s, lo, hi) ==
    LET l == Min(lo, Len(s))
        h == Min(hi, Len(s))
    IN  IF h <= l THEN <<>> ELSE SubSeq(s, l + 1, h)

\* Python's divmod(a, b) for a >= 0 and b # 0 (floor division)
Divmod(a, b) ==
    IF b > 0 THEN <<a \div b, a % b>>
    ELSE LET q == -((a + (-b) - 1) \div (-b)) IN <<q, a - q * b>>

---------------------------------------------------------------------------
(* preprocess_text *)

\* sep.join(parts), a string being the sequence of its tokens
RECURSIVE Join(_, _)
Join(parts, sep) ==
    IF parts = <<>> THEN <<>>
    ELSE IF Len(parts) = 1 THEN Head(parts)
    ELSE Head(parts) \o <<sep>> \o Join(Tail(parts), sep)

\* the pieces of string s between the occurrences of token sep
RECURSIVE SplitFrom(_, _, _)
SplitFrom(s, sep, cur) ==
    IF s = <<>> THEN <<cur>>
    ELSE IF Head(s) = sep THEN <<cur>> \o SplitFrom(Tail(s), sep, <<>>)
    ELSE SplitFrom(Tail(s), sep, Append(cur, Head(s)))

\* str.split(sep) and chapter_regex.split(text) (the pattern matches "#")
Split(s, sep) == SplitFrom(s, sep, <<>>)

\* a text: its lines joined by newlines, each line one token
Texts == {Join([j \in 1..Len(ls) |-> <<ls[j]>>], "\n") : ls \in LineSeqs}

Whitespace == {" ", "\n", "\r"}

\* str.rstrip()
RECURSIVE rstrip(_)
rstrip(s) ==
    IF s = <<>> THEN <<>>
    ELSE IF s[Len(s)] \in Whitespace THEN rstrip(SubSeq(s, 1, Len(s) - 1))
    ELSE s

\* str.replace(old, new) for one-token strings
replace(s, old, new) == [j \in 1..Len(s) |-> IF s[j] = old THEN new ELSE s[j]]

\* lines 50-52
Clean(segment) == replace(replace(rstrip(segment), "\n", " "), "\r", " ")

\* faulty variant: the start of group i taken with min(i + 1, m)
GroupLoOffByOne(i, k, m) == i * k + Min(i + 1, m)
\* first index of group i (0-based): i * k + min(i, m)
GroupLo(i, k, m) == i * k + Min(i, m)
\* end index of group i: (i + 1) * k + min(i + 1, m)
GroupHi(i, k, m) == (i + 1) * k + Min(i + 1, m)

\* the list comprehension of lines 43-45; range(n) is empty for n <= 0
ParagraphGroups(paragraphs, nb) ==
    LET num_sections == Min(nb, Len(paragraphs))
        km == Divmod(Len(paragraphs), nb)
    IN  IF num_sections <= 0 THEN <<>>
        ELSE [g \in 1..num_sections |->
                Join(Slice(paragraphs, GroupLo(g - 1, km[1], km[2]),
                                       GroupHi(g - 1, km[1], km[2])), "\n")]

preprocess_text ==
    /\ pc = "init"
    /\ IF chapter_regex
       THEN LET pieces == Tail(Split(text, "#"))
            IN  /\ timeline' = pieces
                /\ nb_sections' = Len(pieces)
                /\ sections' = [g \in 1..Len(pieces) |-> Clean(pieces[g])]
                /\ pc' = "generate"
                /\ err' = "none"
       ELSE IF nb_sections = 0
            THEN \* divmod(len(paragraphs), 0)
                 /\ pc' = "failed"
                 /\ err' = "ZeroDivisionError"
                 /\ UNCHANGED <<timeline, nb_sections, sections>>
            ELSE LET groups == ParagraphGroups(Split(text, "\n"), nb_sections)
                 IN  /\ timeline' = groups
                     /\ sections' = [g \in 1..Len(groups) |-> Clean(groups[g])]
                     /\ pc' = "generate"
                     /\ err' = "none"
                     /\ UNCHANGED nb_sections
    /\ UNCHANGED <<text, chapter_regex, percentile, pruned,
                   unnormalised_matrices, normalised_matrices,
                   characters_timeline, metadata, json_contents, written,
                   threshold>>

---------------------------------------------------------------------------
(* Python dicts: sequences of <<key, value>> pairs in insertion order *)

Keys(d) == [j \in 1..Len(d) |-> d[j][1]]
Has(d, k) == \E j \in 1..Len(d) : d[j][1] = k
Get(d, k) == d[CHOOSE j \in 1..Len(d) : d[j][1] = k][2]
\* del d[k]
Del(d, k) == SelectSeq(d, LAMBDA e : e[1] # k)
\* d[k] = v: an existing key keeps its place
Put(d, k, v) ==
    IF Has(d, k) THEN [j \in 1..Len(d) |-> IF d[j][1] = k THEN <<k, v>> ELSE d[j]]
    ELSE Append(d, <<k, v>>)

---------------------------------------------------------------------------
(* Exact fractions, standing for the floats of numpy *)

RECURSIVE GCD(_, _)
GCD(a, b) == IF b = 0 THEN a ELSE GCD(b, a % b)

\* n / d in lowest terms, for n >= 0 and d > 0
Frac(n, d) == LET g == GCD(n, d) IN [n |-> n \div g, d |-> d \div g]
Zero == Frac(0, 1)
One == Frac(1, 1)
\* float nan: every comparison with it is false
NaN == [n |-> 0, d |-> 0]
FracAdd(a, b) == Frac(a.n * b.d + b.n * a.d, a.d * b.d)
FracLess(a, b) == a.n * b.d < b.n * a.d
\* a / b for b # 0
FracDiv(a, b) == Frac(a.n * b.d, a.d * b.n)

RECURSIVE FracSum(_)
FracSum(s) == IF s = <<>> THEN Zero ELSE FracAdd(Head(s), FracSum(Tail(s)))

---------------------------------------------------------------------------
(* The section analyser nlp.InteractionsCounter (its interface, spec.md 6) *)

\* the raw mentions, in the order the analyser lists them
RawNames == <<"Liz", "Elizabeth", "Darcy">>

\* mg.character_dict: raw alias -> canonical name
character_dict == [n \in {"Liz", "Elizabeth", "Darcy"} |->
                     IF n = "Liz" THEN "Elizabeth" ELSE n]

\* the ordered lists of distinct raw names a section can mention
CharacterLists ==
    {SelectSeq(RawNames, LAMBDA n : n \in S) :
        S \in SUBSET {RawNames[j] : j \in 1..Len(RawNames)}}

\* every square matrix of dimension k with weights 0..MaxW
SquareMatrices(k) == [1..k -> [1..k -> {Frac(w, 1) : w \in 0..MaxW}]]

\* the co-occurrence matrices of dimension k: symmetric, zero diagonal, and
\* 1 where two characters of the section meet
CoOccurrenceMatrices(k) ==
    LET pairs == {rc \in (1..k) \X (1..k) : rc[1] < rc[2]}
    IN  {[r \in 1..k |-> [c \in 1..k |->
            IF r = c THEN Zero
            ELSE IF r < c THEN f[<<r, c>>] ELSE f[<<c, r>>]]] :
         f \in [pairs -> {Zero, One}]}

\* what one call matrix_generator(section) may return: <<interactions, characters>>
AnyAnalysis ==
    UNION {{<<m, cs>> : m \in SquareMatrices(Len(cs))} : cs \in CharacterLists}
CoOccurrenceAnalysis ==
    UNION {{<<m, cs>> : m \in CoOccurrenceMatrices(Len(cs))} : cs \in CharacterLists}
TwoAnalyses ==
    {<<<<>>, <<>>>>, <<<<<<Zero, One>>, <<One, Zero>>>>, <<"Elizabeth", "Darcy">>>>}

\* the interactions of section i, row-major: <<i, character, other character>>
SectionEvents(i, m, cs) ==
    LET k == Len(cs)
        all == [p \in 1..(k * k) |-> <<((p - 1) \div k) + 1, ((p - 1) % k) + 1>>]
        hit == SelectSeq(all, LAMBDA rc :
                   rc[1] # rc[2] /\ (m[rc[1]][rc[2]] # Zero \/ m[rc[2]][rc[1]] # Zero))
    IN  [p \in 1..Len(hit) |-> <<i, cs[hit[p][1]], cs[hit[p][2]]>>]

RECURSIVE FirstOverall(_, _)
FirstOverall(events, d) ==
    IF events = <<>> THEN d
    ELSE LET e == Head(events)
         IN  FirstOverall(Tail(events),
                 IF Has(d, e[2]) THEN d
                 ELSE Put(d, e[2], [with |-> e[3], section |-> e[1]]))

RECURSIVE FirstPerChar(_, _)
FirstPerChar(events, d) ==
    IF events = <<>> THEN d
    ELSE LET e == Head(events)
             inner == IF Has(d, e[2]) THEN Get(d, e[2]) ELSE <<>>
         IN  FirstPerChar(Tail(events),
                 IF Has(inner, e[3]) THEN d
                 ELSE Put(d, e[2], Put(inner, e[3], [section |-> e[1]])))

\* matrix_generator.get_metadata(): the first interaction of every character
\* and of every pair, in the order the analyser met them
get_metadata(matrices, characters) ==
    LET events == Concat([i \in 1..Len(matrices) |->
                            SectionEvents(i, matrices[i], characters[i])])
    IN  [overall |-> FirstOverall(events, <<>>),
         perchar |-> FirstPerChar(events, <<>>)]

---------------------------------------------------------------------------
(* generate_timeline_json: lines 141-154 *)

start_generate ==
    /\ pc = "generate"
    /\ json_contents' = [num_sections |-> nb_sections, sections |-> <<>>]
    /\ pc' = "analyse"
    /\ UNCHANGED <<text, chapter_regex, nb_sections, percentile, pruned,
                   timeline, sections, unnormalised_matrices,
                   normalised_matrices, characters_timeline, metadata,
                   written, threshold, err>>

\* one iteration of the loop of lines 148-153
analyse_section(domain) ==
    /\ pc = "analyse"
    /\ Len(unnormalised_matrices) < Len(sections)
    /\ \E a \in domain :
          /\ unnormalised_matrices' = Append(unnormalised_matrices, a[1])
          /\ characters_timeline' = Append(characters_timeline, a[2])
    /\ UNCHANGED <<text, chapter_regex, nb_sections, percentile, pruned,
                   timeline, sections, normalised_matrices, metadata,
                   json_contents, written, threshold, pc, err>>

\* line 154, and the test of line 156
fetch_metadata ==
    /\ pc = "analyse"
    /\ Len(unnormalised_matrices) = Len(sections)
    /\ metadata' = get_metadata(unnormalised_matrices, characters_timeline)
    /\ pc' = IF pruned THEN "prune" ELSE "normalise"
    /\ UNCHANGED <<text, chapter_regex, nb_sections, percentile, pruned,
                   timeline, sections, unnormalised_matrices,
                   normalised_matrices, characters_timeline, json_contents,
                   written, threshold, err>>

---------------------------------------------------------------------------
(* prune: lines 57-111 *)

\* matrix[:, j].sum()
ColumnSum(matrix, j) == FracSum([r \in 1..Len(matrix) |-> matrix[r][j]])

\* the conversion of np.fromiter(..., dtype=int): truncation
ToInt(x) == x.n \div x.d

\* the k-th smallest (0-based) of a non-empty sequence of naturals
KthSmallest(values, k) ==
    CHOOSE v \in {values[j] : j \in 1..Len(values)} :
        /\ Cardinality({j \in 1..Len(values) : values[j] < v}) <= k
        /\ Cardinality({j \in 1..Len(values) : values[j] <= v}) > k

\* np.percentile(values, q) of a non-empty array: linear interpolation
\* between the closest ranks of the sorted values
Percentile(values, q) ==
    LET n == Len(values)
        lo == (q * (n - 1)) \div 100
        hi == Min(lo + 1, n - 1)
        a == KthSmallest(values, lo)
        b == KthSmallest(values, hi)
    IN  Frac(a * 100 + (q * (n - 1) - 100 * lo) * (b - a), 100)

\* np.delete(np.delete(matrix, j, axis=0), j, axis=1), j 1-based here
DeleteIndex(s, j) == [p \in 1..(Len(s) - 1) |-> IF p < j THEN s[p] ELSE s[p + 1]]
\* faulty variant: only axis 0 is deleted
DeleteRowOnly(matrix, j) == DeleteIndex(matrix, j)
DeleteRowColumn(matrix, j) ==
    LET rows == DeleteIndex(matrix, j)
    IN  [r \in 1..Len(rows) |-> DeleteIndex(rows[r], j)]

IndexOf(s, x) == CHOOSE j \in 1..Len(s) : s[j] = x /\ \A p \in 1..(j - 1) : s[p] # x

\* the inner loop of lines 80-86 on section <<matrix, characters>>
RECURSIVE PruneSection(_, _, _)
PruneSection(matrix, characters, todo) ==
    IF todo = <<>> THEN <<matrix, characters>>
    ELSE LET j == IndexOf(characters, Head(todo))
         IN  PruneSection(DeleteRowColumn(matrix, j), DeleteIndex(characters, j),
                          Tail(todo))

InList(s, x) == \E j \in 1..Len(s) : s[j] = x

\* _prune_matrices: <<matrices, character lists>> afterwards
prune_matrices(matrices, characters, unimportant) ==
    LET done == [i \in 1..Len(matrices) |->
                    PruneSection(matrices[i], characters[i],
                        SelectSeq(characters[i], LAMBDA ch : InList(unimportant, ch)))]
    IN  <<[i \in 1..Len(matrices) |-> done[i][1]],
          [i \in 1..Len(matrices) |-> done[i][2]]>>

\* lines 106-110 for character c over the keys snapshot
RECURSIVE PruneNested(_, _, _)
PruneNested(perchar, keys, c) ==
    IF keys = <<>> THEN perchar
    ELSE LET key == Head(keys)
             inner == Get(perchar, key)
         IN  PruneNested(
                 IF Has(inner, c)
                 THEN IF Del(inner, c) = <<>> THEN Del(perchar, key)
                      ELSE Put(perchar, key, Del(inner, c))
                 ELSE perchar,
                 Tail(keys), c)

\* faulty variant: the nested keys are left alone
PruneCharacterTopOnly(md, c) ==
    [overall |-> Del(md.overall, c), perchar |-> Del(md.perchar, c)]
\* the body of the loop of lines 101-110 for character c
PruneCharacter(md, c) ==
    LET per == Del(md.perchar, c)
    IN  [overall |-> Del(md.overall, c),
         perchar |-> PruneNested(per, Keys(per), c)]

\* _prune_metadata
RECURSIVE prune_metadata(_, _)
prune_metadata(md, unimportant) ==
    IF unimportant = <<>> THEN md
    ELSE prune_metadata(PruneCharacter(md, Head(unimportant)), Tail(unimportant))

\* lines 64-67: the column sums of the last section, in character order
characters_interactions ==
    LET last == Len(unnormalised_matrices)
    IN  [j \in 1..Len(characters_timeline[last]) |->
            ColumnSum(unnormalised_matrices[last], j)]

prune ==
    /\ pc = "prune"
    /\ IF Len(unnormalised_matrices) = 0
       THEN \* self.unnormalised_matrices[-1] of an empty list
            /\ pc' = "failed"
            /\ err' = "IndexError"
            /\ UNCHANGED <<unnormalised_matrices, characters_timeline, metadata,
                           threshold>>
       ELSE LET last == Len(unnormalised_matrices)
                totals == characters_interactions
                ints == [j \in 1..Len(totals) |-> ToInt(totals[j])]
                values == SelectSeq(ints, LAMBDA x : x > 0)
            IN  IF values = <<>>
                THEN \* np.percentile of an empty array: an IndexError, or nan
                     \* (with a warning), depending on the numpy release
                     \/ /\ pc' = "failed"
                        /\ err' = "IndexError"
                        /\ UNCHANGED <<unnormalised_matrices,
                                       characters_timeline, metadata, threshold>>
                     \/ /\ threshold' = NaN
                        /\ pc' = "normalise"
                        /\ err' = "none"
                        /\ UNCHANGED <<unnormalised_matrices,
                                       characters_timeline, metadata>>
                ELSE LET t == Percentile(values, percentile)
                         chars == characters_timeline[last]
                         idx == SelectSeq([j \in 1..Len(chars) |-> j],
                                   LAMBDA j : FracLess(totals[j], t))
                         unimportant == [p \in 1..Len(idx) |-> chars[idx[p]]]
                         pm == prune_matrices(unnormalised_matrices,
                                              characters_timeline, unimportant)
                     IN  /\ threshold' = t
                         /\ unnormalised_matrices' = pm[1]
                         /\ characters_timeline' = pm[2]
                         /\ metadata' = prune_metadata(metadata, unimportant)
                         /\ pc' = "normalise"
                         /\ err' = "none"
    /\ UNCHANGED <<text, chapter_regex, nb_sections, percentile, pruned,
                   timeline, sections, normalised_matrices, json_contents,
                   written>>

---------------------------------------------------------------------------
(* normalise_matrix: lines 132-138 *)

\* faulty variant: the row is divided by its length
NormaliseRowByLength(row) ==
    [j \in 1..Len(row) |-> FracDiv(row[j], Frac(Len(row), 1))]
\* one iteration of the outer loop: row_sum is taken before the row changes
NormaliseRow(row) ==
    LET row_sum == FracSum(row)
    IN  [j \in 1..Len(row) |->
            IF row_sum # Zero THEN FracDiv(row[j], row_sum) ELSE Zero]

normalise_matrix(matrix) == [i \in 1..Len(matrix) |-> NormaliseRow(matrix[i])]

\* line 159: normalise_matrix changes its argument in place and returns it,
\* so both lists end up holding the normalised arrays
normalise ==
    /\ pc = "normalise"
    /\ normalised_matrices' = [i \in 1..Len(unnormalised_matrices) |->
                                 normalise_matrix(unnormalised_matrices[i])]
    /\ unnormalised_matrices' = normalised_matrices'
    /\ pc' = "sections"
    /\ UNCHANGED <<text, chapter_regex, nb_sections, percentile, pruned,
                   timeline, sections, characters_timeline, metadata,
                   json_contents, written, threshold, err>>

---------------------------------------------------------------------------
(* sort_matrix and the loop of lines 160-167 *)

IndexOrders(k) == {p \in [1..k -> 1..k] : \A a, b \in 1..k : a # b => p[a] # p[b]}

\* np.sum(matrix, 0)
ColumnSums(matrix) ==
    [j \in 1..Len(matrix) |-> FracSum([r \in 1..Len(matrix) |-> matrix[r][j]])]

\* np.argsort(-sums): kind defaults to 'quicksort', which numpy documents as
\* not stable, so any index order with non-increasing sums can come back
ArgsortDescending(sums) ==
    {p \in IndexOrders(Len(sums)) :
        \A a \in 1..(Len(sums) - 1) : ~FracLess(sums[p[a]], sums[p[a + 1]])}

\* matrix[:, indices][indices, :]
Reorder(matrix, indices) ==
    [r \in 1..Len(indices) |-> [c \in 1..Len(indices) |->
        matrix[indices[r]][indices[c]]]]

\* lines 161-167 for section i = number of records appended so far + 1
rename_sort_section ==
    /\ pc = "sections"
    /\ Len(json_contents.sections) < Len(characters_timeline)
    /\ LET i == Len(json_contents.sections) + 1
           renamed == [j \in 1..Len(characters_timeline[i]) |->
                          character_dict[characters_timeline[i][j]]]
           matrix == normalised_matrices[i]
       IN  \E indices \in ArgsortDescending(ColumnSums(matrix)) :
              LET ordered_matrix == Reorder(matrix, indices)
                  ordered_characters == [j \in 1..Len(indices) |-> renamed[indices[j]]]
              IN  /\ normalised_matrices' =
                         [normalised_matrices EXCEPT ![i] = ordered_matrix]
                  /\ characters_timeline' =
                         [characters_timeline EXCEPT ![i] = ordered_characters]
                  /\ json_contents' =
                         [json_contents EXCEPT !.sections =
                             Append(@, [names |-> ordered_characters,
                                        matrix |-> ordered_matrix])]
    /\ UNCHANGED <<text, chapter_regex, nb_sections, percentile, pruned,
                   timeline, sections, unnormalised_matrices, metadata,
                   written, threshold, pc, err>>

---------------------------------------------------------------------------
(* update_names_metadata: lines 113-130 *)

\* lines 119-123 on the live inner dict, over the snapshot names of value
RECURSIVE RenameNested(_, _)
RenameNested(inner, names) ==
    IF names = <<>> THEN inner
    ELSE LET name2 == Head(names)
             new_name2 == character_dict[name2]
         IN  RenameNested(
                 IF new_name2 # name2 /\ Has(inner, name2)
                 THEN Put(Del(inner, name2), new_name2, Get(inner, name2))
                 ELSE inner,
                 Tail(names))

\* lines 115-123 over the snapshot of "first interactions per char"
RECURSIVE UpdatePerChar(_, _)
UpdatePerChar(live, snapshot) ==
    IF snapshot = <<>> THEN live
    ELSE LET name == Head(snapshot)[1]
             value == Head(snapshot)[2]
             new_name == character_dict[name]
             moved == IF new_name # name
                      THEN Put(Del(live, name), new_name, Get(live, name))
                      ELSE live
         IN  UpdatePerChar(
                 Put(moved, new_name,
                     RenameNested(Get(moved, new_name), Keys(value))),
                 Tail(snapshot))

\* lines 126-130 over the snapshot names of "first interactions overall"
RECURSIVE UpdateOverall(_, _)
UpdateOverall(live, names) ==
    IF names = <<>> THEN live
    ELSE LET name == Head(names)
             new_name == character_dict[name]
             record == Get(live, name)
         IN  UpdateOverall(
                 Put(Del(live, name), new_name,
                     [record EXCEPT !.with = character_dict[record.with]]),
                 Tail(names))

update_names_metadata ==
    /\ pc = "sections"
    /\ Len(json_contents.sections) = Len(characters_timeline)
    /\ metadata' = [overall |-> UpdateOverall(metadata.overall, Keys(metadata.overall)),
                    perchar |-> UpdatePerChar(metadata.perchar, metadata.perchar)]
    /\ pc' = "write"
    /\ UNCHANGED <<text, chapter_regex, nb_sections, percentile, pruned,
                   timeline, sections, unnormalised_matrices,
                   normalised_matrices, characters_timeline, json_contents,
                   written, threshold, err>>

\* lines 169-172
write_json ==
    /\ pc = "write"
    /\ json_contents' =
          [num_sections |-> json_contents.num_sections,
           sections |-> json_contents.sections,
           first_interactions_between_characters |-> metadata.perchar,
           first_interactions_overall |-> metadata.overall]
    /\ written' = TRUE
    /\ pc' = "done"
    /\ UNCHANGED <<text, chapter_regex, nb_sections, percentile, pruned,
                   timeline, sections, unnormalised_matrices,
                   normalised_matrices, characters_timeline, metadata,
                   threshold, err>>

---------------------------------------------------------------------------
(* Specifications *)

\* self.metadata = {} of line 24
EmptyDict == [empty |-> TRUE]
\* a local that is not assigned yet
Unassigned == [unassigned |-> TRUE]

\* the state after __init__ (lines 13-24)
Constructed ==
    /\ timeline = <<>>
    /\ sections = <<>>
    /\ unnormalised_matrices = <<>>
    /\ normalised_matrices = <<>>
    /\ characters_timeline = <<>>
    /\ metadata = EmptyDict
    /\ json_contents = Unassigned
    /\ written = FALSE
    /\ threshold = NaN
    /\ pc = "init"
    /\ err = "none"

Percentiles == {0, 50, 100}

\* texts of up to MaxAnalysed paragraphs
PipelineTexts == {Join([j \in 1..k |-> <<"x">>], "\n") : k \in 1..MaxAnalysed}

\* the whole pipeline on short texts, the analyser returning co-occurrence
\* matrices
Init ==
    /\ Constructed
    /\ text \in PipelineTexts
    /\ chapter_regex = FALSE
    /\ nb_sections = MaxAnalysed
    /\ percentile \in Percentiles
    /\ pruned \in BOOLEAN

Next ==
    \/ preprocess_text
    \/ start_generate
    \/ analyse_section(CoOccurrenceAnalysis)
    \/ fetch_metadata
    \/ prune
    \/ normalise
    \/ rename_sort_section
    \/ update_names_metadata
    \/ write_json

Spec == Init /\ [][Next]_vars

\* every text and section count, the analyser returning one of two results
InitPartition ==
    /\ Constructed
    /\ text \in Texts
    /\ chapter_regex \in BOOLEAN
    /\ nb_sections \in SectionCounts
    /\ percentile = 50
    /\ pruned \in BOOLEAN

NextPartition ==
    \/ preprocess_text
    \/ start_generate
    \/ analyse_section(TwoAnalyses)
    \/ fetch_metadata
    \/ prune
    \/ normalise
    \/ rename_sort_section
    \/ update_names_metadata
    \/ write_json

SpecPartition == InitPartition /\ [][NextPartition]_vars

\* one section with any square matrix, pruning disabled
InitMatrix ==
    /\ Constructed
    /\ text = <<"x">>
    /\ chapter_regex = FALSE
    /\ nb_sections = 1
    /\ percentile = 50
    /\ pruned = FALSE

NextMatrix ==
    \/ preprocess_text
    \/ start_generate
    \/ analyse_section(AnyAnalysis)
    \/ fetch_metadata
    \/ normalise
    \/ rename_sort_section
    \/ update_names_metadata
    \/ write_json

SpecMatrix == InitMatrix /\ [][NextMatrix]_vars

---------------------------------------------------------------------------
(* Properties of preprocess_text *)

Abs(a) == IF a < 0 THEN -a ELSE a

\* the paragraphs of a group, recovered from the joined segment
Paragraphs(segment) == Split(segment, "\n")

\* C9: paragraph-based partitioning of p >= 1 paragraphs into s >= 1 sections
\* forms min(s, p) contiguous groups whose sizes differ by at most 1, the
\* first p mod s being the larger ones when s <= p, and the groups put end to
\* end are the original paragraph sequence; 10 paragraphs in 3 sections give
\* sizes 4, 3, 3.
C9_PartitionBalance ==
    /\ [g \in 1..3 |-> GroupHi(g - 1, 3, 1) - GroupLo(g - 1, 3, 1)] = <<4, 3, 3>>
    /\ (pc # "init" /\ err = "none" /\ ~chapter_regex /\ nb_sections >= 1) =>
          LET paragraphs == Paragraphs(text)
              p == Len(paragraphs)
              s == nb_sections
              groups == [g \in 1..Len(timeline) |-> Paragraphs(timeline[g])]
          IN  /\ Len(timeline) = Min(s, p)
              /\ \A g, h \in 1..Len(groups) :
                    Abs(Len(groups[g]) - Len(groups[h])) <= 1
              /\ s <= p =>
                    \A g \in 1..Len(groups) :
                       Len(groups[g]) = (p \div s) + (IF g <= p % s THEN 1 ELSE 0)
              /\ Concat(groups) = paragraphs

\* 4 paragraphs were split into 3 sections of 2, 1 and 1 paragraphs
C9_Witness ==
    /\ pc = "generate"
    /\ ~chapter_regex
    /\ nb_sections = 3
    /\ Len(Paragraphs(text)) = 4
    /\ [g \in 1..Len(timeline) |-> Len(Paragraphs(timeline[g]))] = <<2, 1, 1>>

\* C8: for every nb_sections <= 0, preprocess_text fails with a
\* ConfigurationError and appends no section (so the run writes no output).
C8_NonPositiveSectionCountRejected ==
    [][(pc = "init" /\ nb_sections <= 0) =>
          (pc' = "failed" /\ err' = "ConfigurationError" /\ sections' = <<>>)]_vars

\* C10: for nb_sections >= 1 (or a boundary pattern), the num_sections of the
\* written record is the number of its per-section records, which is the
\* number of sections preprocess_text produced.
C10_SectionCountMatchesRecords ==
    (pc = "done" /\ written /\ (chapter_regex \/ nb_sections >= 1)) =>
        /\ json_contents.num_sections = Len(json_contents.sections)
        /\ Len(json_contents.sections) = Len(sections)

---------------------------------------------------------------------------
(* Properties of the matrix stages *)

IsSquare(matrix, k) ==
    Len(matrix) = k /\ \A r \in 1..Len(matrix) : Len(matrix[r]) = k

\* a name appears in some section's character list
Listed(c) ==
    \E i \in 1..Len(characters_timeline) : InList(characters_timeline[i], c)

\* some surviving first-interaction record names a partner that prune took
\* out of every section
PrunedPartnerRecorded ==
    /\ threshold # NaN
    /\ \E j \in 1..Len(metadata.overall) : ~Listed(metadata.overall[j][2].with)

\* C1: the analyser returning square matrices and lists of distinct names of
\* the same length, after every mutating stage (prune, normalise, the name
\* rewrite and sort_matrix of each section) every section's matrix is square
\* and its dimension is the length of the section's character list.
C1_DimensionInvariant ==
    /\ Len(unnormalised_matrices) = Len(characters_timeline)
    /\ \A i \in 1..Len(characters_timeline) :
          IsSquare(unnormalised_matrices[i], Len(characters_timeline[i]))
    /\ pc \in {"sections", "write", "done"} =>
          /\ Len(normalised_matrices) = Len(characters_timeline)
          /\ \A i \in 1..Len(characters_timeline) :
                IsSquare(normalised_matrices[i], Len(characters_timeline[i]))

\* a pruned run of two sections came to its end, prune having removed a
\* character that others had interacted with
C1_Witness ==
    /\ pc = "done"
    /\ pruned
    /\ Len(characters_timeline) = 2
    /\ PrunedPartnerRecorded
    /\ \E i \in 1..2 : Len(characters_timeline[i]) >= 1

\* the characters of the final section whose total is below threshold t
BelowThreshold(t) ==
    LET last == Len(characters_timeline)
        totals == characters_interactions
    IN  {characters_timeline[last][j] :
            j \in {q \in 1..Len(totals) : FracLess(totals[q], t)}}

\* prune has just returned
PruneReturns == pc = "prune" /\ pc' = "normalise"

\* C2: after prune() returns, a character of the final section whose total
\* weight there is below the computed threshold is in no section's character
\* list, is no top-level key of either metadata structure, and is no nested
\* key of 'first interactions per char'.
C2_PruningCompleteness ==
    [][(PruneReturns /\ threshold' # NaN) =>
          \A c \in BelowThreshold(threshold') :
             /\ \A i \in 1..Len(characters_timeline') :
                   ~InList(characters_timeline'[i], c)
             /\ ~Has(metadata'.overall, c)
             /\ ~Has(metadata'.perchar, c)
             /\ \A j \in 1..Len(metadata'.perchar) :
                   ~Has(metadata'.perchar[j][2], c)]_vars

\* prune returned after removing a character that a surviving character's
\* record names
C2_Witness ==
    /\ pc = "normalise"
    /\ pruned
    /\ PrunedPartnerRecorded

\* C5: after prune() returns, no surviving 'first interactions overall' record
\* names a pruned character as its other party.
C5_NoRecordRefersToPruned ==
    [][(PruneReturns /\ threshold' # NaN) =>
          \A j \in 1..Len(metadata'.overall) :
             metadata'.overall[j][2].with \notin BelowThreshold(threshold')]_vars

\* C7: with pruning enabled and no positive total in the final section,
\* prune() fails with an InsufficientDataError and removes no character.
C7_InsufficientDataError ==
    [][(/\ pc = "prune"
        /\ Len(unnormalised_matrices) > 0
        /\ \A j \in 1..Len(characters_interactions) :
              ~FracLess(Zero, characters_interactions[j]))
       => (/\ pc' = "failed"
           /\ err' = "InsufficientDataError"
           /\ characters_timeline' = characters_timeline)]_vars

\* C3: after normalise_matrix a row whose original sum is nonzero holds its
\* entries divided by that sum and sums to exactly 1, and a row whose
\* original sum is zero is all zeros.
C3_RowStochastic ==
    [][pc = "normalise" =>
          \A i \in 1..Len(unnormalised_matrices) :
             \A r \in 1..Len(unnormalised_matrices[i]) :
                LET old == unnormalised_matrices[i][r]
                    new == normalised_matrices'[i][r]
                    row_sum == FracSum(old)
                IN  /\ Len(new) = Len(old)
                    /\ row_sum # Zero =>
                          /\ FracSum(new) = One
                          /\ \A j \in 1..Len(old) :
                                new[j].n * row_sum.n * old[j].d
                                   = old[j].n * row_sum.d * new[j].d
                    /\ row_sum = Zero =>
                          /\ FracSum(new) = Zero
                          /\ \A j \in 1..Len(old) : new[j] = Zero]_vars

\* a 3x3 matrix was normalised into a row of thirds, a row of halves and a
\* row of zeros
C3_Witness ==
    /\ pc = "sections"
    /\ json_contents.sections = <<>>
    /\ Len(normalised_matrices) = 1
    /\ LET m == normalised_matrices[1]
       IN  /\ Len(m) = 3
           /\ \E r \in 1..3 : \A j \in 1..3 : m[r][j] = Frac(1, 3)
           /\ \E r \in 1..3 : \E j \in 1..3 : m[r][j] = Frac(1, 2)
           /\ \E r \in 1..3 : \A j \in 1..3 : m[r][j] = Zero

\* the one index order that sorts by descending sum and keeps ties in place
StableDescending(sums) ==
    CHOOSE p \in IndexOrders(Len(sums)) :
        \A a \in 1..(Len(sums) - 1) :
            \/ FracLess(sums[p[a + 1]], sums[p[a]])
            \/ (sums[p[a + 1]] = sums[p[a]] /\ p[a] < p[a + 1])

\* C4: sort_matrix(i) orders the characters of section i by descending column
\* sum of the normalised matrix, characters of equal sum keeping the order
\* they had (so the output is a function of the input).
C4_StableSort ==
    [][(pc = "sections" /\ Len(json_contents'.sections) = Len(json_contents.sections) + 1) =>
          LET i == Len(json_contents'.sections)
              matrix == normalised_matrices[i]
              p == StableDescending(ColumnSums(matrix))
          IN  /\ normalised_matrices'[i] = Reorder(matrix, p)
              /\ characters_timeline'[i] =
                    [j \in 1..Len(p) |-> character_dict[characters_timeline[i][p[j]]]]]_vars

\* the earliest section recorded for any alias of canonical name n
EarliestOverall(d, n) ==
    LET ss == {d[j][2].section : j \in {q \in 1..Len(d) : character_dict[d[q][1]] = n}}
    IN  CHOOSE x \in ss : \A y \in ss : x <= y

\* C6: when two raw names of a metadata structure have the same canonical
\* name, update_names_metadata keeps both sides under the canonical key: the
\* overall record with the earliest section, and every nested partner of
\* either alias in 'first interactions per char'.
C6_NoSilentOverwrite ==
    [][(pc = "sections" /\ pc' = "write") =>
          /\ \A j \in 1..Len(metadata.overall) :
                LET n == character_dict[metadata.overall[j][1]]
                IN  /\ Has(metadata'.overall, n)
                    /\ Get(metadata'.overall, n).section =
                          EarliestOverall(metadata.overall, n)
          /\ \A j \in 1..Len(metadata.perchar) :
                LET n == character_dict[metadata.perchar[j][1]]
                    value == metadata.perchar[j][2]
                IN  /\ Has(metadata'.perchar, n)
                    /\ \A q \in 1..Len(value) :
                          LET n2 == character_dict[value[q][1]]
                          IN  /\ Has(Get(metadata'.perchar, n), n2)
                              /\ Get(Get(metadata'.perchar, n), n2).section
                                    <= value[q][2].section]_vars

=============================================================================
